---- MODULE Spec2Model ----
(***************************************************************************)
(* Model of the gonerator handler generator (package generator):           *)
(*   parser.go     parseFile, parseMethod, parseStructFields,              *)
(*                 parseApiValidatorTag, strToInt                          *)
(*   generator.go  Generate, getPackageName                                *)
(*                                                                         *)
(* Text is modelled as a sequence of one-character strings, so that the    *)
(* Trim / TrimPrefix / Split / SplitN / Sscanf steps of the code act on    *)
(* the characters they act on in the program.                              *)
(***************************************************************************)
EXTENDS Integers, Sequences, FiniteSets, TLC

VARIABLES
    \* ---- tag grammar parser (parseApiValidatorTag applied to one field tag)
    tagClauses,     \* the clauses written in the field's apivalidator tag
    hasTag,         \* FALSE: the field carries no tag (field.Tag == nil)
    rule,           \* the ApiValidatorTag returned, Nil before the call
    tpc,            \* "build" | "parsed"
    \* ---- method model builder (parseMethod applied to one declaration)
    fd,             \* the annotated *ast.FuncDecl handed to parseMethod
    pm,             \* what parseMethod gave back, Nil before the call
    refilled,       \* the Method's ApiMethod default-filled once more, or Nil
    mpc,            \* "decl" | "parsed" | "refilled"
    \* ---- Generate(inputFile, outputFile), run after run
    file,           \* the input file: package name, declarations, syntax
    fault,          \* the stage that fails on this input and destination
    out,            \* the destination file: [exists, data]
    pc,             \* "idle", or the statement of Generate to run next
    runs,           \* invocations of Generate started so far
    methods,        \* local of Generate
    packageName,    \* local of Generate
    groupedMethods, \* local of Generate
    buf,            \* local of Generate
    formattedCode,  \* local of Generate
    ret,            \* outcome of the last invocation: "none" before the
                    \* first, "running", "nil", "error" or "panic"
    endedAt,        \* the statement at which the last invocation ended
    outAtStart,     \* the destination file when the invocation started
    prevRet,        \* ret of the invocation before the current one
    prevOut,        \* the destination file that invocation left
    \* ---- struct field resolver (parseStructFields applied to one name)
    typeSpecs,      \* the type declarations of the file, in source order
    askedName,      \* the structName asked for, "" before the call
    structFields,   \* the []StructField returned
    fpc,            \* "declare" | "resolved"
    \* ---- a field tag with several keys (parseApiValidatorTag on the whole tag)
    keyBefore,      \* text of another key written before apivalidator, or <<>>
    keyAfter        \* text of another key written after apivalidator, or <<>>

tagVars == <<tagClauses, hasTag, rule, tpc>>
methVars == <<fd, pm, refilled, mpc>>

genVars ==
    <<file, fault, out, pc, runs, methods, packageName, groupedMethods, buf,
      formattedCode, ret, endedAt, outAtStart, prevRet, prevOut>>

fieldVars == <<typeSpecs, askedName, structFields, fpc>>

stVars == <<keyBefore, keyAfter>>
extVars == <<fieldVars, stVars>>

vars == <<tagVars, methVars, genVars, extVars>>

Nil == "nil"

\* ------------------------------------------------------------------ bounds
MaxClauses == 3

\* ------------------------------------------------------------ string helpers
\* the two quote characters, written as named atoms
BackQuote   == "BACKQUOTE"
DoubleQuote == "DOUBLEQUOTE"

Digits == {"0", "1", "2", "3", "4", "5", "6", "7", "8", "9"}

DigitVal(c) ==
    CASE c = "0" -> 0 [] c = "1" -> 1 [] c = "2" -> 2 [] c = "3" -> 3
      [] c = "4" -> 4 [] c = "5" -> 5 [] c = "6" -> 6 [] c = "7" -> 7
      [] c = "8" -> 8 [] c = "9" -> 9

RECURSIVE TrimLeft(_, _)
TrimLeft(s, c) ==
    IF s # <<>> /\ Head(s) = c THEN TrimLeft(Tail(s), c) ELSE s

RECURSIVE TrimRight(_, _)
TrimRight(s, c) ==
    IF s # <<>> /\ s[Len(s)] = c
    THEN TrimRight(SubSeq(s, 1, Len(s) - 1), c)
    ELSE s

\* strings.Trim(s, cutset) for a one-character cutset
Trim(s, c) == TrimRight(TrimLeft(s, c), c)

HasPrefix(s, p) == Len(s) >= Len(p) /\ SubSeq(s, 1, Len(p)) = p

TrimPrefix(s, p) == IF HasPrefix(s, p) THEN SubSeq(s, Len(p) + 1, Len(s)) ELSE s

\* index of the first occurrence of character c in s, 0 when there is none
IndexOf(s, c) ==
    IF \E i \in 1..Len(s) : s[i] = c
    THEN CHOOSE i \in 1..Len(s) : s[i] = c /\ \A j \in 1..(i - 1) : s[j] # c
    ELSE 0

\* strings.Split(s, sep) for a one-character separator: Split("", sep) = [""]
RECURSIVE Split(_, _)
Split(s, sep) ==
    LET i == IndexOf(s, sep)
    IN  IF i = 0
        THEN <<s>>
        ELSE <<SubSeq(s, 1, i - 1)>> \o Split(SubSeq(s, i + 1, Len(s)), sep)

\* strings.SplitN(s, sep, 2)
SplitN2(s, sep) ==
    LET i == IndexOf(s, sep)
    IN  IF i = 0
        THEN <<s>>
        ELSE <<SubSeq(s, 1, i - 1), SubSeq(s, i + 1, Len(s))>>

RECURSIVE Join(_, _)
Join(parts, sep) ==
    IF parts = <<>> THEN <<>>
    ELSE IF Len(parts) = 1 THEN parts[1]
    ELSE parts[1] \o <<sep>> \o Join(Tail(parts), sep)

RECURSIVE DecimalValue(_, _)
DecimalValue(ds, acc) ==
    IF ds = <<>> THEN acc ELSE DecimalValue(Tail(ds), 10 * acc + DigitVal(Head(ds)))

\* the longest prefix of s made of characters of set cs
RECURSIVE TakeWhile(_, _)
TakeWhile(s, cs) ==
    IF s # <<>> /\ Head(s) \in cs THEN <<Head(s)>> \o TakeWhile(Tail(s), cs) ELSE <<>>

\* ------------------------------------------------------------------ strToInt
\* fmt.Sscanf(s, "%d", &i): leading spaces are skipped, one sign is accepted,
\* then the longest run of the characters 0-9 and _ is the token, which
\* strconv.ParseInt(tok, 10, 64) converts (an underscore makes it fail).
\* Input after the token is not looked at.  The values of the model stay far
\* below 2^63, so the overflow check of the scan never applies.
strToInt(s) ==
    LET t     == TrimLeft(s, " ")
        neg   == t # <<>> /\ Head(t) = "-"
        sgn   == t # <<>> /\ Head(t) \in {"+", "-"}
        body  == IF sgn THEN Tail(t) ELSE t
        tok   == TakeWhile(body, Digits \cup {"_"})
    IN  IF tok = <<>> \/ \E k \in 1..Len(tok) : tok[k] = "_"
        THEN [err |-> TRUE, i |-> 0]
        ELSE [err |-> FALSE,
              i   |-> IF neg THEN 0 - DecimalValue(tok, 0) ELSE DecimalValue(tok, 0)]

\* ------------------------------------------------------ parseApiValidatorTag
K_required  == <<"r", "e", "q", "u", "i", "r", "e", "d">>
K_paramname == <<"p", "a", "r", "a", "m", "n", "a", "m", "e">>
K_enum      == <<"e", "n", "u", "m">>
K_default   == <<"d", "e", "f", "a", "u", "l", "t">>
K_min       == <<"m", "i", "n">>
K_max       == <<"m", "a", "x">>
K_apivalidator ==
    <<"a", "p", "i", "v", "a", "l", "i", "d", "a", "t", "o", "r", ":">>

\* ApiValidatorTag{}: a nil *int is the empty sequence, &v is <<v>>; a nil
\* []string is the empty sequence
ZeroTag ==
    [Required |-> FALSE, Min |-> <<>>, Max |-> <<>>, ParamName |-> <<>>,
     Enum |-> <<>>, Default |-> <<>>]

\* ApplyPart with the enum value stored whole, not split at the pipes
ApplyPartEnumUnsplit(result, part) ==
    LET keyValue == SplitN2(part, "=")
        key      == keyValue[1]
        value    == IF Len(keyValue) > 1 THEN keyValue[2] ELSE <<>>
    IN  CASE key = K_required  -> [result EXCEPT !.Required = TRUE]
          [] key = K_paramname -> [result EXCEPT !.ParamName = value]
          [] key = K_enum      -> [result EXCEPT !.Enum = <<value>>]
          [] key = K_default   -> [result EXCEPT !.Default = value]
          [] key = K_min ->
                IF strToInt(value).err THEN result
                ELSE [result EXCEPT !.Min = <<strToInt(value).i>>]
          [] key = K_max ->
                IF strToInt(value).err THEN result
                ELSE [result EXCEPT !.Max = <<strToInt(value).i>>]
          [] OTHER -> result

\* one iteration of the loop over parts
ApplyPart(result, part) ==
    LET keyValue == SplitN2(part, "=")
        key      == keyValue[1]
        value    == IF Len(keyValue) > 1 THEN keyValue[2] ELSE <<>>
    IN  CASE key = K_required  -> [result EXCEPT !.Required = TRUE]
          [] key = K_paramname -> [result EXCEPT !.ParamName = value]
          [] key = K_enum      -> [result EXCEPT !.Enum = Split(value, "|")]
          [] key = K_default   -> [result EXCEPT !.Default = value]
          [] key = K_min ->
                IF strToInt(value).err THEN result
                ELSE [result EXCEPT !.Min = <<strToInt(value).i>>]
          [] key = K_max ->
                IF strToInt(value).err THEN result
                ELSE [result EXCEPT !.Max = <<strToInt(value).i>>]
          [] OTHER -> result

RECURSIVE ApplyParts(_, _)
ApplyParts(result, parts) ==
    IF parts = <<>> THEN result
    ELSE ApplyParts(ApplyPart(result, Head(parts)), Tail(parts))

\* tag is Nil (no tag on the field) or the raw literal, back quotes included
parseApiValidatorTag(tag) ==
    IF tag = Nil THEN ZeroTag
    ELSE LET tagValue        == Trim(tag, BackQuote)
             apiValidatorTag == Trim(TrimPrefix(tagValue, K_apivalidator), DoubleQuote)
         IN  ApplyParts(ZeroTag, Split(apiValidatorTag, ","))

\* ------------------------------------------------- the tags the model writes
\* A clause is written as key, or key=item|item|...; items holds the
\* pipe-separated items of the value.
Clause(key, eq, items) == [key |-> key, eq |-> eq, items |-> items]

ClauseText(c) == IF c.eq THEN c.key \o <<"=">> \o Join(c.items, "|") ELSE c.key

TagClauseSet ==
    { Clause(K_required, FALSE, <<>>),
      Clause(K_min, TRUE, << <<"3">> >>),
      Clause(K_min, TRUE, << <<"-", "1", "2">> >>),
      Clause(K_min, TRUE, << <<"a", "b", "c">> >>),
      Clause(K_min, TRUE, << <<"3", "x">> >>),
      Clause(K_min, FALSE, <<>>),
      Clause(K_max, TRUE, << <<"5", "0">> >>),
      Clause(K_max, TRUE, << <<"x", "7">> >>),
      Clause(K_enum, TRUE, << <<"a">>, <<"b">>, <<"c">> >>),
      Clause(K_enum, TRUE, << <<"b", "c">>, <<"a">> >>),
      Clause(K_enum, TRUE, << <<>> >>),
      Clause(K_default, TRUE, << <<"a">> >>),
      Clause(K_paramname, TRUE, << <<"b", "c">> >>),
      Clause(<<"z">>, TRUE, << <<"1">> >>) }

\* the raw struct-tag literal of a field tagged apivalidator:"c1,c2,...",
\* as go/ast hands it over: enclosed in back quotes
TagLiteral(cs) ==
    <<BackQuote>> \o K_apivalidator \o <<DoubleQuote>>
        \o Join([k \in 1..Len(cs) |-> ClauseText(cs[k])], ",")
        \o <<DoubleQuote, BackQuote>>

\* ---------------------------------------------------------- tag specification
TagIdle == tagClauses = <<>> /\ hasTag = FALSE /\ rule = Nil /\ tpc = "build"
MethIdle == fd = Nil /\ pm = Nil /\ refilled = Nil /\ mpc = "decl"
GenIdle ==
    /\ file = Nil /\ fault = "none" /\ out = Nil /\ pc = "idle" /\ runs = 0
    /\ methods = <<>> /\ packageName = "" /\ groupedMethods = <<>>
    /\ buf = <<>> /\ formattedCode = <<>> /\ ret = "none" /\ endedAt = "none"
    /\ outAtStart = Nil /\ prevRet = "none" /\ prevOut = Nil
FieldIdle ==
    typeSpecs = <<>> /\ askedName = "" /\ structFields = <<>> /\ fpc = "declare"
StIdle == keyBefore = <<>> /\ keyAfter = <<>>
ExtIdle == FieldIdle /\ StIdle

InitTag ==
    /\ tagClauses = <<>>
    /\ hasTag \in BOOLEAN
    /\ rule = Nil
    /\ tpc = "build"
    /\ MethIdle
    /\ GenIdle
    /\ ExtIdle

\* the author writes one more clause into the tag
AddClause ==
    /\ tpc = "build"
    /\ hasTag
    /\ Len(tagClauses) < MaxClauses
    /\ \E c \in TagClauseSet : tagClauses' = Append(tagClauses, c)
    /\ UNCHANGED <<hasTag, rule, tpc, methVars, genVars, extVars>>

\* parseStructFields line 133: tag := parseApiValidatorTag(field.Tag)
ParseTag ==
    /\ tpc = "build"
    /\ rule' = parseApiValidatorTag(IF hasTag THEN TagLiteral(tagClauses) ELSE Nil)
    /\ tpc' = "parsed"
    /\ UNCHANGED <<tagClauses, hasTag, methVars, genVars, extVars>>

NextTag == AddClause \/ ParseTag

SpecTag == InitTag /\ [][NextTag]_vars

\* =====================================================================
\* The syntax tree handed over by go/parser, as far as the code reads it
\* =====================================================================
\* ast.Expr of a type: an *ast.Ident (In), an *ast.StarExpr over an Ident
\* (*Out) or an *ast.SelectorExpr (context.Context)
Ident(n)    == [kind |-> "ident", name |-> n]
Star(n)     == [kind |-> "star", name |-> n]
Selector(n) == [kind |-> "selector", name |-> n]

\* *ast.Field of a parameter, result or receiver list: names is the number
\* of identifiers declared with the type (a, b T has two, an unnamed one none)
Param(names, type) == [names |-> names, type |-> type]

\* JSON members of a directive payload
JAbsent    == [t |-> "absent"]
JString(v) == [t |-> "string", s |-> v]
JBool(v)   == [t |-> "bool", b |-> v]

\* the text after the directive prefix: not JSON at all (syntax |-> FALSE) or
\* a JSON object with the four optional members
JsonObject(url, auth, method, key) ==
    [syntax |-> TRUE, url |-> url, auth |-> auth, method |-> method,
     auth_env_key |-> key]
JsonGarbage ==
    [syntax |-> FALSE, url |-> JAbsent, auth |-> JAbsent, method |-> JAbsent,
     auth_env_key |-> JAbsent]

\* one line of a doc comment: directive is strings.HasPrefix(comment.Text,
\* "// apigen:api"), payload the text after that prefix
PlainComment        == [directive |-> FALSE, payload |-> JsonGarbage]
DirectiveComment(p) == [directive |-> TRUE, payload |-> p]

\* the receiver list of a declaration: NoRecv for a package-level function
\* (funcDecl.Recv == nil), else the one receiver field
NoRecv            == [present |-> FALSE, names |-> 0, type |-> Ident("")]
Recv(names, type) == [present |-> TRUE, names |-> names, type |-> type]

\* *ast.FuncDecl; results is <<>> for a function without results (Type.Results == nil),
\* doc is <<>> without a doc comment (funcDecl.Doc == nil)
FuncDecl(name, doc, recv, params, results) ==
    [Name |-> name, doc |-> doc, recv |-> recv, params |-> params,
     results |-> results]

\* ------------------------------------------------------------- json.Unmarshal
ZeroApiMethod == [Url |-> "", Auth |-> FALSE, Method |-> "", AuthEnvKey |-> ""]

StringMember(m) == m.t \in {"absent", "string"}
BoolMember(m)   == m.t \in {"absent", "bool"}

\* json.Unmarshal([]byte(payload), &apiMethod) into a zero ApiMethod: an
\* absent member leaves the zero value, a member of the wrong JSON type or a
\* text that is not JSON is an error
Unmarshal(p) ==
    IF ~p.syntax
       \/ ~StringMember(p.url) \/ ~BoolMember(p.auth)
       \/ ~StringMember(p.method) \/ ~StringMember(p.auth_env_key)
    THEN [err |-> TRUE, v |-> ZeroApiMethod]
    ELSE [err |-> FALSE,
          v |-> [Url        |-> IF p.url.t = "string" THEN p.url.s ELSE "",
                 Auth       |-> IF p.auth.t = "bool" THEN p.auth.b ELSE FALSE,
                 Method     |-> IF p.method.t = "string" THEN p.method.s ELSE "",
                 AuthEnvKey |-> IF p.auth_env_key.t = "string"
                                THEN p.auth_env_key.s ELSE ""]]

\* ---------------------------------------------------------------- parseMethod
\* FillDefaults without the fallback key
FillDefaultsNoKey(a) ==
    IF a.Method = "" THEN [a EXCEPT !.Method = "GET,POST"] ELSE a

\* FillDefaults that overwrites the method the directive gave
FillDefaultsMethodAlways(a) ==
    LET b == [a EXCEPT !.Method = "GET,POST"]
    IN  IF b.Auth /\ b.AuthEnvKey = ""
        THEN [b EXCEPT !.AuthEnvKey = "API_AUTH_KEY"] ELSE b

\* lines 96-104: the two defaults
FillDefaults(a) ==
    LET b == IF a.Method = "" THEN [a EXCEPT !.Method = "GET,POST"] ELSE a
    IN  IF b.Auth /\ b.AuthEnvKey = ""
        THEN [b EXCEPT !.AuthEnvKey = "API_AUTH_KEY"] ELSE b

\* the struct literal of lines 81-87 evaluates without a run-time panic:
\*   funcDecl.Recv.List[0].Names[0]          Recv non-nil, receiver named
\*   Recv.List[0].Type.(*ast.StarExpr).X.(*ast.Ident)   pointer receiver
\*   Type.Params.List[1].Type.(*ast.Ident)   a second parameter field, Ident
\*   Type.Results.List[0].Type.(*ast.StarExpr).X.(*ast.Ident)
SignatureReadable(funcDecl) ==
    /\ funcDecl.recv.present
    /\ funcDecl.recv.names >= 1
    /\ funcDecl.recv.type.kind = "star"
    /\ Len(funcDecl.params) >= 2
    /\ funcDecl.params[2].type.kind = "ident"
    /\ Len(funcDecl.results) >= 1
    /\ funcDecl.results[1].type.kind = "star"

ZeroMethod ==
    [Name |-> "", ReceiverName |-> "", ReceiverType |-> "", InputType |-> "",
     OutputType |-> "", ApiMethod |-> ZeroApiMethod, StructFields |-> <<>>]

\* *ast.TypeSpec of the file: isStruct is typeSpec.Type.(*ast.StructType),
\* fields its field list; a field is [names, type, tag], names the sequence
\* of declared names (empty for an embedded field), tag Nil or the literal
\* parseStructFields(filename, structName): the file is parsed again and
\* every TypeSpec named structName contributes its named fields
RECURSIVE FieldsOf(_)
FieldsOf(fl) ==
    IF fl = <<>> THEN <<>>
    ELSE LET field == Head(fl)
         IN  (IF Len(field.names) > 0
              THEN <<[Name |-> field.names[1], Type |-> field.type.name,
                      Tag |-> parseApiValidatorTag(field.tag)]>>
              ELSE <<>>) \o FieldsOf(Tail(fl))

RECURSIVE parseStructFields(_, _)
parseStructFields(types, structName) ==
    IF types = <<>> THEN <<>>
    ELSE LET typeSpec == Head(types)
         IN  (IF typeSpec.Name = structName /\ typeSpec.isStruct
              THEN FieldsOf(typeSpec.fields) ELSE <<>>)
             \o parseStructFields(Tail(types), structName)

\* parseMethod(funcDecl, comment, filename): kind is "ok" (a Method and a nil
\* error), "error" (a non-nil error) or "panic" (a run-time panic: nil
\* dereference, index out of range or failed type assertion, lines 83-86)
parseMethod(funcDecl, comment, types) ==
    IF ~SignatureReadable(funcDecl)
    THEN [kind |-> "panic", method |-> ZeroMethod]
    ELSE IF Unmarshal(comment.payload).err
    THEN [kind |-> "error", method |-> ZeroMethod]
    ELSE [kind |-> "ok",
          method |->
            [Name         |-> funcDecl.Name,
             ReceiverName |-> "srv",
             ReceiverType |-> funcDecl.recv.type.name,
             InputType    |-> funcDecl.params[2].type.name,
             OutputType   |-> funcDecl.results[1].type.name,
             ApiMethod    |-> FillDefaults(Unmarshal(comment.payload).v),
             StructFields |->
                 parseStructFields(types, funcDecl.params[2].type.name)]]

\* ------------------------------------------------------- method specification
CtxParam == Param(1, Selector("context.Context"))

RecvShapes ==
    { NoRecv,                           \* func Profile(...)
      Recv(1, Star("MyApi")),           \* func (srv *MyApi) Profile(...)
      Recv(1, Ident("MyApi")),          \* func (srv MyApi) Profile(...)
      Recv(0, Star("MyApi")) }          \* func (*MyApi) Profile(...)

ParamShapes ==
    { <<CtxParam>>,                                        \* (ctx)
      <<CtxParam, Param(1, Ident("In"))>>,                 \* (ctx, in In)
      <<CtxParam, Param(1, Star("In"))>>,                  \* (ctx, in *In)
      <<CtxParam, Param(1, Selector("pkg.In"))>>,          \* (ctx, in pkg.In)
      <<CtxParam, Param(1, Ident("In")), Param(1, Ident("Opt"))>>,
                                                           \* (ctx, in In, o Opt)
      <<CtxParam, Param(2, Ident("In"))>> }                \* (ctx, a, b In)

ResultShapes ==
    { <<>>,                                                \* no result
      <<Param(0, Star("Out")), Param(0, Ident("error"))>>, \* (*Out, error)
      <<Param(0, Ident("Out")), Param(0, Ident("error"))>> }  \* (Out, error)

Payloads ==
    {JsonGarbage} \cup
    { JsonObject(u, a, m, k) :
        u \in {JAbsent, JString("/user/profile")},
        a \in {JAbsent, JBool(TRUE), JBool(FALSE), JString("yes")},
        m \in {JAbsent, JString(""), JString("POST")},
        k \in {JAbsent, JString(""), JString("MY_API_KEY")} }

\* the struct declarations next to the method under test
MethodTypes ==
    << [Name |-> "In", isStruct |-> TRUE,
        fields |-> << [names |-> <<"Login">>, type |-> Ident("string"),
                       tag |-> TagLiteral(<<Clause(K_required, FALSE, <<>>)>>)] >>] >>

InitMethod ==
    /\ fd \in { FuncDecl("Profile", <<DirectiveComment(p)>>, r, ps, rs) :
                    p \in Payloads, r \in RecvShapes, ps \in ParamShapes,
                    rs \in ResultShapes }
    /\ pm = Nil
    /\ refilled = Nil
    /\ mpc = "decl"
    /\ TagIdle
    /\ GenIdle
    /\ ExtIdle

\* parseFile line 64: method, err := parseMethod(funcDecl, comment.Text, filename)
CallParseMethod ==
    /\ mpc = "decl"
    /\ pm' = parseMethod(fd, fd.doc[1], MethodTypes)
    /\ mpc' = "parsed"
    /\ UNCHANGED <<fd, refilled, tagVars, genVars, extVars>>

\* lines 96-104 applied to the Directive of the finished Method once more
Refill ==
    /\ mpc = "parsed"
    /\ pm.kind = "ok"
    /\ refilled' = FillDefaults(pm.method.ApiMethod)
    /\ mpc' = "refilled"
    /\ UNCHANGED <<fd, pm, tagVars, genVars, extVars>>

NextMethod == CallParseMethod \/ Refill

SpecMethod == InitMethod /\ [][NextMethod]_vars

\* ------------------------------------------------ field resolver specification
MaxTypes == 2

\* *ast.Field of a struct: names are the identifiers declared with the type
\* (none for an embedded field), tag the raw literal or Nil
StructFieldDecl(names, type, tag) == [names |-> names, type |-> type, tag |-> tag]

\* *ast.TypeSpec: type Name struct { fields }, or type Name <other type>
TypeSpec(name, isStruct, fields) ==
    [Name |-> name, isStruct |-> isStruct, fields |-> fields]

RequiredTag == TagLiteral(<<Clause(K_required, FALSE, <<>>)>>)

\* the type declarations a file of the model is made of, all at package
\* level, each name declared once (a sequence: the tag of a field is Nil
\* or a literal)
TypeSpecShapes ==
    << \* type In struct { Login string `apivalidator:"required"` }
      TypeSpec("In", TRUE,
               <<StructFieldDecl(<<"Login">>, Ident("string"), RequiredTag)>>),
      \* type In struct { Login string; User; Age int }
      TypeSpec("In", TRUE,
               <<StructFieldDecl(<<"Login">>, Ident("string"), Nil),
                 StructFieldDecl(<<>>, Ident("User"), Nil),
                 StructFieldDecl(<<"Age">>, Ident("int"), Nil)>>),
      \* type In struct { Width, Height int }
      TypeSpec("In", TRUE,
               <<StructFieldDecl(<<"Width", "Height">>, Ident("int"), Nil)>>),
      \* type In struct {}
      TypeSpec("In", TRUE, <<>>),
      \* type In int
      TypeSpec("In", FALSE, <<>>),
      \* type Other struct { Name string; Level int }
      TypeSpec("Other", TRUE,
               <<StructFieldDecl(<<"Name">>, Ident("string"), Nil),
                 StructFieldDecl(<<"Level">>, Ident("int"), Nil)>>),
      \* type User struct { ID int }
      TypeSpec("User", TRUE,
               <<StructFieldDecl(<<"ID">>, Ident("int"), Nil)>>) >>

\* the names parseStructFields is asked for
AskedNames == {"In", "Other", "User", "Missing"}

InitFields ==
    /\ typeSpecs = <<>>
    /\ askedName = ""
    /\ structFields = <<>>
    /\ fpc = "declare"
    /\ StIdle
    /\ TagIdle
    /\ MethIdle
    /\ GenIdle

\* the file declares one more type, of a name not declared yet
DeclareType ==
    /\ fpc = "declare"
    /\ Len(typeSpecs) < MaxTypes
    /\ \E s \in 1..Len(TypeSpecShapes) :
          LET t == TypeSpecShapes[s]
          IN
          /\ \A k \in 1..Len(typeSpecs) : typeSpecs[k].Name # t.Name
          /\ typeSpecs' = Append(typeSpecs, t)
    /\ UNCHANGED <<askedName, structFields, fpc, stVars, tagVars, methVars, genVars>>

\* parseMethod line 106: parseStructFields(filename, method.InputType)
ResolveFields ==
    /\ fpc = "declare"
    /\ \E n \in AskedNames :
          /\ askedName' = n
          /\ structFields' = parseStructFields(typeSpecs, n)
    /\ fpc' = "resolved"
    /\ UNCHANGED <<typeSpecs, stVars, tagVars, methVars, genVars>>

NextFields == DeclareType \/ ResolveFields

SpecFields == InitFields /\ [][NextFields]_vars

\* ------------------------------------------- several-key tag specification
MaxApiClauses == 2

\* the clauses written under the apivalidator key of a several-key tag
ApiClauseSet ==
    { Clause(K_required, FALSE, <<>>),
      Clause(K_min, TRUE, << <<"3">> >>),
      Clause(K_enum, TRUE, << <<"a">>, <<"b">> >>),
      Clause(K_default, TRUE, << <<"a">> >>) }

\* key:"value" texts of other tag keys: json:"id", json:"login,required",
\* xml:"n,max=9"; <<>> when no other key is written at that place
OtherKeys ==
    { <<>>,
      <<"j", "s", "o", "n", ":", DoubleQuote, "i", "d", DoubleQuote>>,
      <<"j", "s", "o", "n", ":", DoubleQuote, "l", "o", "g", "i", "n", ",",
        "r", "e", "q", "u", "i", "r", "e", "d", DoubleQuote>>,
      <<"x", "m", "l", ":", DoubleQuote, "n", ",", "m", "a", "x", "=", "9",
        DoubleQuote>> }

\* apivalidator:"c1,c2,..." without the enclosing back quotes
ApiKeyText(cs) == Trim(TagLiteral(cs), BackQuote)

\* field.Tag of a field whose tag holds, separated by a space, the key
\* before, the apivalidator key (when written) and the key after: the raw
\* literal in back quotes, Nil for a field with no tag at all
StructTagLiteral(before, written, cs, after) ==
    LET keys == SelectSeq(<<before, IF written THEN ApiKeyText(cs) ELSE <<>>, after>>,
                          LAMBDA k : k # <<>>)
    IN  IF keys = <<>> THEN Nil
        ELSE <<BackQuote>> \o Join(keys, " ") \o <<BackQuote>>

InitStructTag ==
    /\ tagClauses = <<>>
    /\ hasTag \in BOOLEAN
    /\ rule = Nil
    /\ tpc = "build"
    /\ keyBefore \in OtherKeys
    /\ keyAfter \in OtherKeys
    /\ FieldIdle
    /\ MethIdle
    /\ GenIdle

\* the author writes one more clause under the apivalidator key
WriteApiClause ==
    /\ tpc = "build"
    /\ hasTag
    /\ Len(tagClauses) < MaxApiClauses
    /\ \E c \in ApiClauseSet : tagClauses' = Append(tagClauses, c)
    /\ UNCHANGED <<hasTag, rule, tpc, stVars, fieldVars, methVars, genVars>>

\* parseStructFields line 133: tag := parseApiValidatorTag(field.Tag)
ParseStructTag ==
    /\ tpc = "build"
    /\ rule' = parseApiValidatorTag(
                   StructTagLiteral(keyBefore, hasTag, tagClauses, keyAfter))
    /\ tpc' = "parsed"
    /\ UNCHANGED <<tagClauses, hasTag, stVars, fieldVars, methVars, genVars>>

NextStructTag == WriteApiClause \/ ParseStructTag

SpecStructTag == InitStructTag /\ [][NextStructTag]_vars

\* =====================================================================
\* parseFile and Generate
\* =====================================================================
\* index of the first doc-comment line with the directive prefix, 0 if none
\* (lines 62-70: the loop leaves at the first match)
FirstDirective(doc) ==
    IF \E k \in 1..Len(doc) : doc[k].directive
    THEN CHOOSE k \in 1..Len(doc) :
            doc[k].directive /\ \A j \in 1..(k - 1) : ~doc[j].directive
    ELSE 0

\* the loop of lines 59-74 over node.Decls; a panic of parseMethod leaves
\* parseFile (and Generate) by unwinding, an error by return nil, err
RECURSIVE parseDecls(_, _, _)
parseDecls(decls, acc, types) ==
    IF decls = <<>> THEN [kind |-> "ok", methods |-> acc]
    ELSE LET funcDecl == Head(decls)
             k        == FirstDirective(funcDecl.doc)
         IN  IF k = 0 THEN parseDecls(Tail(decls), acc, types)
             ELSE LET r == parseMethod(funcDecl, funcDecl.doc[k], types)
                  IN  IF r.kind # "ok"
                      THEN [kind |-> r.kind, methods |-> <<>>]
                      ELSE parseDecls(Tail(decls), Append(acc, r.method), types)

\* parseFile(filename): parser.ParseFile fails on a file that is not Go
parseFile(f) ==
    IF ~f.syntaxOK THEN [kind |-> "error", methods |-> <<>>]
    ELSE parseDecls(f.Decls, <<>>, f.Types)

\* the grouping loop with each method put in front of its group
RECURSIVE GroupMethodsPrepend(_, _)
GroupMethodsPrepend(grouped, ms) ==
    IF ms = <<>> THEN grouped
    ELSE LET method == Head(ms)
             t      == method.ReceiverType
         IN  GroupMethodsPrepend(
                 IF t \in DOMAIN grouped
                 THEN [grouped EXCEPT ![t] = <<method>> \o @]
                 ELSE grouped @@ (t :> <<method>>),
                 Tail(ms))

\* Generate lines 27-30: groupedMethods[method.ReceiverType] =
\* append(groupedMethods[method.ReceiverType], method), method by method
RECURSIVE GroupMethods(_, _)
GroupMethods(grouped, ms) ==
    IF ms = <<>> THEN grouped
    ELSE LET method == Head(ms)
             t      == method.ReceiverType
         IN  GroupMethods(
                 IF t \in DOMAIN grouped
                 THEN [grouped EXCEPT ![t] = Append(@, method)]
                 ELSE grouped @@ (t :> <<method>>),
                 Tail(ms))

\* the receiver type names of the model, in ascending byte order
TypeNames == <<"MyApi", "OtherApi">>
TypeRank(t) == CHOOSE i \in 1..Len(TypeNames) : TypeNames[i] = t

\* the keys in descending order
RECURSIVE KeysDescending(_)
KeysDescending(S) ==
    IF S = {} THEN <<>>
    ELSE LET t == CHOOSE x \in S : \A y \in S : TypeRank(y) <= TypeRank(x)
         IN  <<t>> \o KeysDescending(S \ {t})

\* the order in which handlerTemplate.Execute visits data.Methods: the data
\* is a Go map (lines 27, 35), which text/template ranges over in ascending
\* key order
RECURSIVE SortedKeys(_)
SortedKeys(S) ==
    IF S = {} THEN <<>>
    ELSE LET t == CHOOSE x \in S : \A y \in S : TypeRank(x) <= TypeRank(y)
         IN  <<t>> \o SortedKeys(S \ {t})

\* a stretch of output text
Chunk(kind, name, ms, gofmt) ==
    [kind |-> kind, name |-> name, methods |-> ms, gofmt |-> gofmt]

\* the rendered text: the package clause, then one dispatcher per group with
\* the handlers of its methods
RenderTemplate(data) ==
    LET keys == SortedKeys(DOMAIN data.Methods)
    IN  <<Chunk("package", data.PackageName, <<>>, FALSE)>>
        \o [i \in 1..Len(keys) |->
               Chunk("dispatcher", keys[i], data.Methods[keys[i]], FALSE)]

\* format.Source: the same text in canonical layout
FormatSource(b) == [i \in 1..Len(b) |-> [b[i] EXCEPT !.gofmt = TRUE]]

\* the destination file
NoFile        == [exists |-> FALSE, data |-> <<>>]
FileWith(d)   == [exists |-> TRUE, data |-> d]

\* writing at the end of what the file holds
WriteFileAppending(old, data) == FileWith(old.data \o data)

\* os.WriteFile(outputFile, formattedCode, 0644) that succeeds: the file is
\* created or truncated and holds formattedCode
WriteFile(old, data) == FileWith(data)

\* -------------------------------------------------------------- input files
MaxDecls == 3
MaxRuns  == 2

MethodName(i) ==
    <<"Profile", "Create", "Update", "Delete", "List", "Find", "Count">>[i]

GoodParams  == <<CtxParam, Param(1, Ident("In"))>>
GoodResults == <<Param(0, Star("Out")), Param(0, Ident("error"))>>

ProfileDirective ==
    DirectiveComment(JsonObject(JString("/user/profile"), JBool(FALSE),
                                JAbsent, JAbsent))
CreateDirective ==
    DirectiveComment(JsonObject(JString("/user/create"), JBool(TRUE),
                                JString("POST"), JString("MY_API_KEY")))
GarbageDirective == DirectiveComment(JsonGarbage)

\* the declarations a file of the model is made of; the name is given by the
\* position in the file
DeclShapes ==
    { \* annotated methods of the supported shape
      FuncDecl("", <<ProfileDirective>>, Recv(1, Star("MyApi")),
               GoodParams, GoodResults),
      FuncDecl("", <<CreateDirective>>, Recv(1, Star("OtherApi")),
               GoodParams, GoodResults),
      FuncDecl("", <<PlainComment, CreateDirective, GarbageDirective>>,
               Recv(1, Star("OtherApi")), GoodParams, GoodResults),
      \* a method without directive
      FuncDecl("", <<PlainComment>>, Recv(1, Star("MyApi")),
               GoodParams, GoodResults),
      \* a directive that is not JSON
      FuncDecl("", <<GarbageDirective>>, Recv(1, Star("MyApi")),
               GoodParams, GoodResults),
      \* an annotated package-level function
      FuncDecl("", <<ProfileDirective>>, NoRecv, GoodParams, GoodResults),
      \* annotated methods of other shapes
      FuncDecl("", <<ProfileDirective>>, Recv(1, Ident("MyApi")),
               GoodParams, GoodResults),
      FuncDecl("", <<ProfileDirective>>, Recv(1, Star("MyApi")),
               <<CtxParam, Param(1, Ident("In")), Param(1, Ident("Opt"))>>,
               GoodResults),
      FuncDecl("", <<ProfileDirective>>, Recv(1, Star("MyApi")),
               GoodParams,
               <<Param(0, Ident("Out")), Param(0, Ident("error"))>>) }

GoFile(decls) ==
    [Name |-> "example", syntaxOK |-> TRUE, Types |-> MethodTypes,
     Decls |-> [i \in 1..Len(decls) |-> [decls[i] EXCEPT !.Name = MethodName(i)]]]

\* a file the Go parser rejects
BrokenFile ==
    [Name |-> "example", syntaxOK |-> FALSE, Types |-> <<>>, Decls |-> <<>>]

InputFiles ==
    {BrokenFile} \cup
    UNION { { GoFile(d) : d \in [1..n -> DeclShapes] } : n \in 0..MaxDecls }

\* the stage that fails for this input and destination: template execution
\* and formatting are functions of the input, the write depends on the
\* destination path
Faults == {"none", "execute", "format", "write"}

StaleFile == FileWith(<<Chunk("stale", "", <<>>, TRUE)>>)

Init ==
    /\ file \in InputFiles
    /\ fault \in Faults
    /\ out \in {NoFile, StaleFile}
    /\ pc = "idle"
    /\ runs = 0
    /\ methods = <<>>
    /\ packageName = ""
    /\ groupedMethods = <<>>
    /\ buf = <<>>
    /\ formattedCode = <<>>
    /\ ret = "none"
    /\ endedAt = "none"
    /\ outAtStart = NoFile
    /\ prevRet = "none"
    /\ prevOut = NoFile
    /\ TagIdle
    /\ MethIdle
    /\ ExtIdle

\* the invocation ends at statement stage with outcome r
Leave(stage, r) ==
    /\ pc' = "idle"
    /\ ret' = r
    /\ endedAt' = stage

\* main calls generator.Generate(inputFile, outputFile): every local is fresh
Invoke ==
    /\ pc = "idle"
    /\ runs < MaxRuns
    /\ pc' = "parseFile"
    /\ runs' = runs + 1
    /\ prevRet' = ret
    /\ prevOut' = out
    /\ outAtStart' = out
    /\ ret' = "running"
    /\ endedAt' = "none"
    /\ methods' = <<>>
    /\ packageName' = ""
    /\ groupedMethods' = <<>>
    /\ buf' = <<>>
    /\ formattedCode' = <<>>
    /\ UNCHANGED <<file, fault, out, tagVars, methVars, extVars>>

\* lines 15-18
ParseFileStep ==
    /\ pc = "parseFile"
    /\ LET r == parseFile(file)
       IN  IF r.kind = "ok"
           THEN /\ methods' = r.methods
                /\ pc' = "getPackageName"
                /\ UNCHANGED <<ret, endedAt>>
           ELSE /\ Leave("parseFile", r.kind)
                /\ UNCHANGED methods
    /\ UNCHANGED <<file, fault, out, runs, packageName, groupedMethods, buf,
                   formattedCode, outAtStart, prevRet, prevOut, tagVars,
                   methVars, extVars>>

\* lines 21-24: the package clause of a file parseFile has just parsed
GetPackageNameStep ==
    /\ pc = "getPackageName"
    /\ packageName' = file.Name
    /\ pc' = "group"
    /\ UNCHANGED <<file, fault, out, runs, methods, groupedMethods, buf,
                   formattedCode, ret, endedAt, outAtStart, prevRet, prevOut,
                   tagVars, methVars, extVars>>

\* lines 27-30
GroupStep ==
    /\ pc = "group"
    /\ groupedMethods' = GroupMethods(<<>>, methods)
    /\ pc' = "execute"
    /\ UNCHANGED <<file, fault, out, runs, methods, packageName, buf,
                   formattedCode, ret, endedAt, outAtStart, prevRet, prevOut,
                   tagVars, methVars, extVars>>

\* lines 33-46
ExecuteStep ==
    /\ pc = "execute"
    /\ IF fault = "execute"
       THEN /\ Leave("execute", "error")
            /\ UNCHANGED buf
       ELSE /\ buf' = RenderTemplate([PackageName |-> packageName,
                                      Methods |-> groupedMethods])
            /\ pc' = "format"
            /\ UNCHANGED <<ret, endedAt>>
    /\ UNCHANGED <<file, fault, out, runs, methods, packageName,
                   groupedMethods, formattedCode, outAtStart, prevRet, prevOut,
                   tagVars, methVars, extVars>>

\* lines 49-52
FormatStep ==
    /\ pc = "format"
    /\ IF fault = "format"
       THEN /\ Leave("format", "error")
            /\ UNCHANGED formattedCode
       ELSE /\ formattedCode' = FormatSource(buf)
            /\ pc' = "write"
            /\ UNCHANGED <<ret, endedAt>>
    /\ UNCHANGED <<file, fault, out, runs, methods, packageName,
                   groupedMethods, buf, outAtStart, prevRet, prevOut, tagVars,
                   methVars, extVars>>

\* lines 55-60: a failing os.WriteFile either could not open the file (it is
\* as before) or failed after truncating it (a proper prefix of the text)
WriteStep ==
    /\ pc = "write"
    /\ IF fault = "write"
       THEN /\ Leave("write", "error")
            /\ \/ out' = out
               \/ \E k \in 0..(Len(formattedCode) - 1) :
                     out' = FileWith(SubSeq(formattedCode, 1, k))
       ELSE /\ out' = WriteFile(out, formattedCode)
            /\ Leave("return", "nil")
    /\ UNCHANGED <<file, fault, runs, methods, packageName, groupedMethods,
                   buf, formattedCode, outAtStart, prevRet, prevOut, tagVars,
                   methVars, extVars>>

Next ==
    \/ Invoke
    \/ ParseFileStep
    \/ GetPackageNameStep
    \/ GroupStep
    \/ ExecuteStep
    \/ FormatStep
    \/ WriteStep

Spec == Init /\ [][Next]_vars

\* =====================================================================
\* Properties of the tag grammar parser (checked under SpecTag)
\* =====================================================================
\* the text after the = of a written clause
WrittenValue(c) == IF c.eq THEN Join(c.items, "|") ELSE <<>>

\* v is the decimal notation of an integer: an optional sign, then digits only
IsIntegerText(v) ==
    LET body == IF v # <<>> /\ Head(v) \in {"+", "-"} THEN Tail(v) ELSE v
    IN  body # <<>> /\ \A k \in 1..Len(body) : body[k] \in Digits

IntegerOf(v) ==
    IF Head(v) = "-" THEN 0 - DecimalValue(Tail(v), 0)
    ELSE IF Head(v) = "+" THEN DecimalValue(Tail(v), 0)
    ELSE DecimalValue(v, 0)

\* positions of the written clauses with key k
ClausesOf(k) == {n \in 1..Len(tagClauses) : tagClauses[n].key = k}

Last(S) == CHOOSE n \in S : \A m \in S : m <= n

\* the bound the written clauses of key k ask for: the integer of the last
\* clause of that key whose value is an integer, unset when there is none
WrittenBound(k) ==
    LET ints == {n \in ClausesOf(k) : IsIntegerText(WrittenValue(tagClauses[n]))}
    IN  IF ints = {} THEN <<>>
        ELSE <<IntegerOf(WrittenValue(tagClauses[Last(ints)]))>>

\* C6: a min (max) clause whose value is not an integer leaves Min (Max)
\* as it was, unset when no other clause sets it, while the other clauses of
\* the tag are applied; a min (max) clause whose value is an integer sets the
\* bound to exactly that integer.
C6_UnparsableBoundUnset ==
    (tpc = "parsed" /\ hasTag) =>
        /\ rule.Min = WrittenBound(K_min)
        /\ rule.Max = WrittenBound(K_max)
        /\ rule.Required = (ClausesOf(K_required) # {})

\* C7: the Enum of a tag with an enum clause is the list of the
\* pipe-separated items of that clause (the last one written, when there are
\* several) in their written order, whatever clauses stand before or after
\* it; a tag without an enum clause, or no tag, gives an empty Enum.
C7_EnumOrderPreserved ==
    tpc = "parsed" =>
        IF ClausesOf(K_enum) = {}
        THEN rule.Enum = <<>>
        ELSE rule.Enum = tagClauses[Last(ClausesOf(K_enum))].items

\* C7 witness: enum=a|b|c stands between two other clauses and was parsed to
\* the three items in order
C7_Witness ==
    /\ tpc = "parsed"
    /\ Len(tagClauses) = 3
    /\ tagClauses[1].key = K_required
    /\ tagClauses[2] = Clause(K_enum, TRUE, << <<"a">>, <<"b">>, <<"c">> >>)
    /\ tagClauses[3].key = K_default
    /\ rule.Enum = << <<"a">>, <<"b">>, <<"c">> >>

\* =====================================================================
\* Properties of the method model builder (checked under SpecMethod)
\* =====================================================================
\* the payload of the directive of the declaration under test
Given == fd.doc[1].payload

MemberGiven(m) == m.t = "string" /\ m.s # ""

\* C4: default-filling policy.  The Method of a decoded directive has a
\* non-empty httpMethod: "GET,POST" when the directive gave none, else the
\* directive's; authEnvKey is "API_AUTH_KEY" when auth is true and no key was
\* given, else the directive's; url and auth are the directive's; filling the
\* defaults a second time changes nothing.
C4_DefaultFilling ==
    (mpc # "decl" /\ pm.kind = "ok") =>
        LET a == pm.method.ApiMethod
        IN  /\ a.Method # ""
            /\ a.Method = IF MemberGiven(Given.method)
                          THEN Given.method.s ELSE "GET,POST"
            /\ a.AuthEnvKey =
                   IF Given.auth = JBool(TRUE) /\ ~MemberGiven(Given.auth_env_key)
                   THEN "API_AUTH_KEY"
                   ELSE IF MemberGiven(Given.auth_env_key)
                        THEN Given.auth_env_key.s ELSE ""
            /\ a.Url = (IF Given.url.t = "string" THEN Given.url.s ELSE "")
            /\ a.Auth = (Given.auth = JBool(TRUE))
            /\ (mpc = "refilled" => refilled = a)

\* C4 witness: a directive without method and key, auth true, was filled
\* with both defaults and filled again
C4_Witness ==
    /\ mpc = "refilled"
    /\ Given.method = JAbsent
    /\ Given.auth_env_key = JAbsent
    /\ Given.auth = JBool(TRUE)
    /\ refilled.Method = "GET,POST"
    /\ refilled.AuthEnvKey = "API_AUTH_KEY"

\* C5 as claimed: authEnvKey is non-empty in every Method produced
C5_AuthEnvKeyNeverEmpty ==
    (mpc # "decl" /\ pm.kind = "ok") => pm.method.ApiMethod.AuthEnvKey # ""

\* C5 amended: authEnvKey is non-empty in every Method whose directive has
\* auth true or gives a key; with auth false or absent and no key given it
\* is empty.
C5_AuthEnvKeySetWhenAuth ==
    (mpc # "decl" /\ pm.kind = "ok") =>
        (pm.method.ApiMethod.AuthEnvKey # ""
            <=> (Given.auth = JBool(TRUE) \/ MemberGiven(Given.auth_env_key)))

\* C5 witness: auth true with an empty key got the fallback name
C5_Witness ==
    /\ mpc = "parsed"
    /\ pm.kind = "ok"
    /\ Given.auth = JBool(TRUE)
    /\ Given.auth_env_key = JString("")
    /\ pm.method.ApiMethod.AuthEnvKey = "API_AUTH_KEY"

\* =====================================================================
\* Properties of Generate (checked under Spec)
\* =====================================================================
Annotated(d) == \E k \in 1..Len(d.doc) : d.doc[k].directive

\* the declarations of the input file that carry a directive, in source order
AnnotatedDecls == SelectSeq(file.Decls, Annotated)

NamesOf(ms) == [i \in 1..Len(ms) |-> ms[i].Name]

\* the invocation is over
Ended == pc = "idle" /\ runs > 0

\* the statement of Generate that is next, or at which the invocation ended
Position == IF pc = "idle" THEN endedAt ELSE pc

Grouped  == Position \in {"execute", "format", "write", "return"}
Rendered == Position \in {"format", "write", "return"}

\* C1: a run in which parsing, extraction, template execution or formatting
\* fails returns an error and leaves the destination file exactly as it
\* was before the run.
C1_FailedRunReturnsError ==
    (Ended /\ endedAt \in {"parseFile", "getPackageName", "execute", "format"})
        => (ret = "error" /\ out = outAtStart)

\* the shape (context, inputStruct) -> (*outputStruct, error) on a pointer
\* receiver, read from the declaration
NumParams(d) ==
    IF Len(d.params) = 0 THEN 0
    ELSE IF Len(d.params) = 1 THEN d.params[1].names
    ELSE IF Len(d.params) = 2 THEN d.params[1].names + d.params[2].names
    ELSE 3

SupportedShape(d) ==
    /\ d.recv.present
    /\ d.recv.type.kind = "star"
    /\ NumParams(d) = 2
    /\ Len(d.params) = 2
    /\ d.params[2].type.kind = "ident"
    /\ Len(d.results) >= 1
    /\ d.results[1].type.kind = "star"

\* C2: when an annotated method of the file has not the supported shape,
\* the run ends in an error outcome (a returned error or a panic through
\* Generate) and the destination file is not written.
C2_UnsupportedShapeAborts ==
    (Ended /\ \E i \in 1..Len(AnnotatedDecls) :
                  AnnotatedDecls[i].recv.present
                  /\ ~SupportedShape(AnnotatedDecls[i]))
        => (ret \in {"error", "panic"} /\ out = outAtStart)

\* C3: an annotated package-level function is skipped: when the annotated
\* declarations that have a receiver are all of the supported shape with a
\* directive that decodes, extraction succeeds and returns exactly their
\* Methods, in order.
C3_PackageLevelFunctionSkipped ==
    LET withRecv == SelectSeq(AnnotatedDecls, LAMBDA d : d.recv.present)
    IN  (/\ runs > 0
         /\ pc # "parseFile"
         /\ file.syntaxOK
         /\ \A i \in 1..Len(withRecv) :
               /\ SupportedShape(withRecv[i])
               /\ ~Unmarshal(withRecv[i].doc[FirstDirective(withRecv[i].doc)].payload).err)
        => (/\ endedAt # "parseFile"
            /\ NamesOf(methods) = NamesOf(withRecv))

\* C8: the render context has one group per distinct receiver type of the
\* extracted Methods, every Method is in the group of its receiver type and
\* in no other, and each group is the subsequence of the extracted list with
\* that receiver type, which is the order of the annotated declarations in
\* the source.
C8_GroupingPartition ==
    Grouped =>
        /\ NamesOf(methods) = NamesOf(AnnotatedDecls)
        /\ DOMAIN groupedMethods =
               {methods[i].ReceiverType : i \in 1..Len(methods)}
        /\ \A t \in DOMAIN groupedMethods :
               /\ groupedMethods[t] =
                      SelectSeq(methods, LAMBDA m : m.ReceiverType = t)
               /\ NamesOf(groupedMethods[t]) =
                      NamesOf(SelectSeq(AnnotatedDecls,
                                        LAMBDA d : d.recv.type.name = t))

\* C8 witness: two methods of MyApi with a method of OtherApi declared
\* between them were grouped
C8_Witness ==
    /\ pc = "execute"
    /\ Len(methods) = 3
    /\ DOMAIN groupedMethods = {"MyApi", "OtherApi"}
    /\ NamesOf(groupedMethods["MyApi"]) = <<MethodName(1), MethodName(3)>>
    /\ NamesOf(groupedMethods["OtherApi"]) = <<MethodName(2)>>

\* the dispatchers of the rendered text, in the order of the text
Dispatchers == SelectSeq(buf, LAMBDA c : c.kind = "dispatcher")

\* position in the extracted list of the first method of receiver type t
FirstSeen(t) ==
    CHOOSE i \in 1..Len(methods) :
        /\ methods[i].ReceiverType = t
        /\ \A j \in 1..(i - 1) : methods[j].ReceiverType # t

RECURSIVE DeclaredNames(_)
DeclaredNames(fl) ==
    IF fl = <<>> THEN <<>> ELSE Head(fl).names \o DeclaredNames(Tail(fl))

\* the struct declarations of the file named n
StructsNamed(n) ==
    SelectSeq(typeSpecs, LAMBDA t : t.Name = n /\ t.isStruct)

\* C11: the resolver returns the named fields of the structure declaration
\* of the name asked for, each once and in declaration order, embedded
\* fields skipped; with no structure declaration of that name it returns an
\* empty list.
C11_ResolverReturnsNamedFields ==
    fpc = "resolved" =>
        [i \in 1..Len(structFields) |-> structFields[i].Name] =
            (IF StructsNamed(askedName) = <<>> THEN <<>>
             ELSE DeclaredNames(StructsNamed(askedName)[1].fields))

\* =====================================================================
\* Properties of tags with several keys (checked under SpecStructTag)
\* =====================================================================
\* C12: the rule of a field is the rule of the value written under the
\* apivalidator key alone, whatever other keys stand before or after it; a
\* field whose tag has no apivalidator key gets the all-default rule.
C12_OnlyApiValidatorKeyCounts ==
    tpc = "parsed" =>
        rule = (IF hasTag THEN parseApiValidatorTag(TagLiteral(tagClauses))
                ELSE ZeroTag)

====
